---- MODULE Spec2Model ----
(***************************************************************************)
(* Model of mr_supabase: the raw-filter mini-language of SupabaseClient,   *)
(* the CRUD commands built on it, and the dual-backend schema              *)
(* introspection of mod.py.                                                *)
(*                                                                         *)
(* A Python str is a sequence of characters.  A character is written as a  *)
(* one-element name: "a", ".", ",", " ", "5"; "sup2" names U+00B2          *)
(* (SUPERSCRIPT TWO) and "ar3" names U+0663 (ARABIC-INDIC DIGIT THREE).   *)
(***************************************************************************)
EXTENDS Integers, Sequences, FiniteSets, TLC

(***************************************************************************)
(* Bounds of the model.                                                    *)
(***************************************************************************)
\* largest number of comma-separated clauses in a raw_filters string
MaxClauses == 2
\* largest number of entries of an equality-filter dict
MaxFilters == 2
\* largest number of tables in a tables argument
MaxTables == 2
\* most messages in a message list handed to the pipe
MaxMessages == 2
\* most runs of the pipe on one message list
MaxRuns == 2
\* most versions of the database catalog
MaxCatalog == 2
\* most foreign-key constraints in the catalog of a relationship lookup
MaxConstraints == 3
\* most PostgresClient instances constructed by concurrent requests
MaxInstances == 3

(***************************************************************************)
(* Python str primitives used by _apply_raw_filters.                       *)
(***************************************************************************)
\* str.isspace() characters of the model alphabet
Whitespace == {" "}

\* characters c with c.isdigit(): Numeric_Type Decimal or Digit
DigitChars == {"0", "5", "ar3", "sup2"}

\* characters int() accepts as a digit: Numeric_Type Decimal only
DecimalChars == {"0", "5", "ar3"}

\* the digit value int() gives a decimal character
DigitValue(c) == CASE c = "0" -> 0 [] c = "5" -> 5 [] c = "ar3" -> 3 [] OTHER -> 0

\* str.lower() on one character
LowerChar(c) ==
  CASE c = "N" -> "n" [] c = "U" -> "u" [] c = "L" -> "l"
    [] c = "T" -> "t" [] c = "R" -> "r" [] c = "E" -> "e"
    [] c = "F" -> "f" [] c = "A" -> "a" [] c = "S" -> "s"
    [] c = "D" -> "d" [] c = "O" -> "o" [] c = "P" -> "p"
    [] OTHER -> c

\* str.lower()
Lower(s) == [i \in 1..Len(s) |-> LowerChar(s[i])]

\* str.isdigit(): non-empty and every character is a digit character
IsDigit(s) == Len(s) > 0 /\ \A i \in 1..Len(s) : s[i] \in DigitChars

\* index of the first occurrence of character c in s, 0 when absent
IndexOf(s, c) ==
  IF \E i \in 1..Len(s) : s[i] = c
  THEN CHOOSE i \in 1..Len(s) : s[i] = c /\ \A j \in 1..(i-1) : s[j] # c
  ELSE 0

RECURSIVE Split(_, _)
\* s.split(sep) for a one-character separator: every occurrence splits,
\* empty pieces are kept
Split(s, sep) ==
  LET i == IndexOf(s, sep) IN
  IF i = 0 THEN <<s>>
  ELSE <<SubSeq(s, 1, i-1)>> \o Split(SubSeq(s, i+1, Len(s)), sep)

RECURSIVE Join(_, _)
\* sep.join(parts)
Join(parts, sep) ==
  IF Len(parts) = 0 THEN <<>>
  ELSE IF Len(parts) = 1 THEN parts[1]
  ELSE parts[1] \o <<sep>> \o Join(Tail(parts), sep)

RECURSIVE LStrip(_)
LStrip(s) == IF Len(s) > 0 /\ s[1] \in Whitespace THEN LStrip(Tail(s)) ELSE s

RECURSIVE RStrip(_)
RStrip(s) ==
  IF Len(s) > 0 /\ s[Len(s)] \in Whitespace THEN RStrip(SubSeq(s, 1, Len(s)-1)) ELSE s

\* str.strip()
Strip(s) == RStrip(LStrip(s))

RECURSIVE IntOf(_)
\* int(s) for a string of decimal characters
IntOf(s) == IF Len(s) = 0 THEN 0 ELSE 10 * IntOf(SubSeq(s, 1, Len(s)-1)) + DigitValue(s[Len(s)])

(***************************************************************************)
(* Scalars: what a filter value is after conversion.                       *)
(***************************************************************************)
NullV == [t |-> "null", b |-> FALSE, n |-> 0, s |-> <<>>]
BoolV(x) == [t |-> "bool", b |-> x, n |-> 0, s |-> <<>>]
IntV(x) == [t |-> "int", b |-> FALSE, n |-> x, s |-> <<>>]
StrV(x) == [t |-> "str", b |-> FALSE, n |-> 0, s |-> x]

\* the words the conversion recognises
WNull == <<"n", "u", "l", "l">>
WTrue == <<"t", "r", "u", "e">>
WFalse == <<"f", "a", "l", "s", "e">>

\* int(value) raises ValueError on a digit character that is not decimal
IntRaises(value) == \E i \in 1..Len(value) : value[i] \notin DecimalChars

\* client.py:68-75, the value conversion: exc is the exception it raises
Coerce(value) ==
  IF Lower(value) = WNull THEN [exc |-> "none", v |-> NullV]
  ELSE IF Lower(value) = WTrue THEN [exc |-> "none", v |-> BoolV(TRUE)]
  ELSE IF Lower(value) = WFalse THEN [exc |-> "none", v |-> BoolV(FALSE)]
  ELSE IF IsDigit(value)
       THEN IF IntRaises(value) THEN [exc |-> "ValueError", v |-> StrV(value)]
            ELSE [exc |-> "none", v |-> IntV(IntOf(value))]
  ELSE [exc |-> "none", v |-> StrV(value)]

(***************************************************************************)
(* The query object and _apply_raw_filters.                                *)
(***************************************************************************)
\* operator names
OpEq == <<"e", "q">>
OpNeq == <<"n", "e", "q">>
OpGt == <<"g", "t">>
OpGte == <<"g", "t", "e">>
OpLt == <<"l", "t">>
OpLte == <<"l", "t", "e">>
OpLike == <<"l", "i", "k", "e">>
OpIlike == <<"i", "l", "i", "k", "e">>
OpIs == <<"i", "s">>
OpOrder == <<"o", "r", "d", "e", "r">>
OpLimit == <<"l", "i", "m", "i", "t">>
OpOffset == <<"o", "f", "f", "s", "e", "t">>
OpExecute == <<"e", "x", "e", "c", "u", "t", "e">>

\* the filter operators of the mini-language
AllowedOps == {OpEq, OpNeq, OpGt, OpGte, OpLt, OpLte, OpLike, OpIlike, OpIs}

\* the callable attributes of the query object: the filter operators and
\* the builder methods the client itself calls on it (order, limit,
\* offset, execute)
QueryAttrs == AllowedOps \cup {OpOrder, OpLimit, OpOffset, OpExecute}

\* hasattr(query, operator) and callable(getattr(query, operator))
HasCallable(operator) == operator \in QueryAttrs

\* one method invocation on the query object; ph is the step of the
\* client that made it
Call(ph, m, col, v) == [ph |-> ph, m |-> m, col |-> col, v |-> v]

\* the value cut at its first dot: parts[2] alone
RawValueTruncated(parts) == parts[3]

\* parts[2:] rejoined with '.'
RawValue(parts) == Join(SubSeq(parts, 3, Len(parts)), ".")

RECURSIVE ApplyExprs(_, _, _)
\* the loop of _apply_raw_filters over filter_expressions, from clause k:
\* acc carries the query (its calls) and the diagnostics printed so far
ApplyExprs(exprs, k, acc) ==
  IF k > Len(exprs) THEN acc
  ELSE
    LET parts == Split(Strip(exprs[k]), ".") IN
    IF Len(parts) < 3
    THEN ApplyExprs(exprs, k+1, [acc EXCEPT !.diag = Append(@, [k |-> k, w |-> "invalid"])])
    ELSE
      LET column == parts[1]
          operator == parts[2]
          c == Coerce(RawValue(parts))
          seen == Append(acc.parsed,
                    [k |-> k, column |-> column, operator |-> operator,
                     value |-> RawValue(parts)])
      IN
      IF c.exc # "none" THEN [acc EXCEPT !.parsed = seen, !.exc = c.exc]
      ELSE IF HasCallable(operator)
      THEN ApplyExprs(exprs, k+1,
             [acc EXCEPT !.parsed = seen,
                         !.calls = Append(@, Call("raw", operator, column, c.v)),
                         !.src = Append(@, k)])
      ELSE ApplyExprs(exprs, k+1,
             [acc EXCEPT !.parsed = seen,
                         !.diag = Append(@, [k |-> k, w |-> "unsupported"])])

\* an optional str argument
None == [some |-> FALSE, s |-> <<>>]
Some(s) == [some |-> TRUE, s |-> s]

\* SupabaseClient._apply_raw_filters(query, raw_filters): calls is the query
\* on entry; the result carries the query returned (calls), for every call
\* added the clause it came from (src), the column, operator and raw value
\* read from every clause that has three parts (parsed), the diagnostics,
\* and the exception raised if any
ApplyRawFilters(calls, raw) ==
  LET start == [calls |-> calls, src |-> <<>>, parsed |-> <<>>, diag |-> <<>>,
                exc |-> "none"] IN
  IF ~raw.some \/ Len(raw.s) = 0 THEN start
  ELSE ApplyExprs(Split(raw.s, ","), 1, start)


(***************************************************************************)
(* SupabaseClient CRUD methods.                                            *)
(***************************************************************************)
\* an optional int argument
NoInt == [some |-> FALSE, n |-> 0]
SomeInt(n) == [some |-> TRUE, n |-> n]

\* an optional dict argument: f is the sequence of its (col, v) items in
\* iteration order
NoDict == [some |-> FALSE, f |-> <<>>]
Dict(f) == [some |-> TRUE, f |-> f]

\* for column, value in filters.items(): query = query.eq(column, value)
EqCalls(f) == [i \in 1..Len(f) |-> Call("filters", OpEq, f[i].col, f[i].v)]

\* client.py:121-123: the order step; raises ValueError when the unpacking
\* of order.split(".") does not get exactly two parts
OrderStep(order) ==
  IF ~order.some \/ Len(order.s) = 0 THEN [exc |-> "none", calls |-> <<>>]
  ELSE IF IndexOf(order.s, ".") = 0
  THEN [exc |-> "none", calls |-> <<Call("order", OpOrder, order.s, BoolV(FALSE))>>]
  ELSE LET parts == Split(order.s, ".") IN
       IF Len(parts) # 2 THEN [exc |-> "ValueError", calls |-> <<>>]
       ELSE [exc |-> "none",
             calls |-> <<Call("order", OpOrder, parts[1],
                              BoolV(parts[2] = <<"d", "e", "s", "c">>))>>]

\* client.py:126-127: if limit: query = query.limit(limit)
LimitStep(limit) ==
  IF limit.some /\ limit.n # 0 THEN <<Call("limit", OpLimit, <<>>, IntV(limit.n))>> ELSE <<>>

\* client.py:129-130: if offset: query = query.offset(offset)
OffsetStep(offset) ==
  IF offset.some /\ offset.n # 0 THEN <<Call("offset", OpOffset, <<>>, IntV(offset.n))>> ELSE <<>>

\* the same request with the order step made before the filters
QueryChainOrderFirst(filters, raw, order, limit, offset) ==
  LET o == OrderStep(order)
      r == ApplyRawFilters(o.calls \o EqCalls(filters.f), raw)
  IN
  IF r.exc # "none" THEN r
  ELSE IF o.exc # "none" THEN [r EXCEPT !.exc = o.exc]
  ELSE [r EXCEPT !.calls = @ \o LimitStep(limit) \o OffsetStep(offset)]

\* client.py:110-130: the request query_table builds before execute
QueryChain(filters, raw, order, limit, offset) ==
  LET r == ApplyRawFilters(EqCalls(filters.f), raw)
      o == OrderStep(order)
  IN
  IF r.exc # "none" THEN r
  ELSE IF o.exc # "none" THEN [r EXCEPT !.exc = o.exc]
  ELSE [r EXCEPT !.calls = @ \o o.calls \o LimitStep(limit) \o OffsetStep(offset)]

\* response.error of an answer: the backend's error payload, "" when the
\* answer reports no error
ErrorPayload(resp) ==
  CASE resp = "error" -> "permission denied"
    [] resp = "error_rows" -> "statement timeout"
    [] OTHER -> ""

\* response.data of an answer
DataOf(resp) == IF resp \in {"rows", "error_rows"} THEN "rows" ELSE "empty"

\* execute() with the error check left out: response.data is returned
\* whatever response.error says
ExecuteUnchecked(r, resp) ==
  [calls |-> IF r.exc = "none"
             THEN Append(r.calls, Call("execute", OpExecute, <<>>, NullV))
             ELSE r.calls,
   src |-> r.src, parsed |-> r.parsed, diag |-> r.diag,
   executed |-> r.exc = "none",
   exc |-> r.exc,
   resp |-> IF r.exc = "none" THEN resp ELSE "none",
   payload |-> "",
   data |-> IF r.exc = "none" THEN DataOf(resp) ELSE "empty"]

\* the outcome of execute() and of the error check after it: resp is what
\* the backend answers ("error", "error_rows", "empty", "rows"); a truthy
\* response.error is raised as an Exception whose message holds it
Execute(r, resp) ==
  [calls |-> IF r.exc = "none"
             THEN Append(r.calls, Call("execute", OpExecute, <<>>, NullV))
             ELSE r.calls,
   src |-> r.src, parsed |-> r.parsed, diag |-> r.diag,
   executed |-> r.exc = "none",
   exc |-> IF r.exc # "none" THEN r.exc
           ELSE IF ErrorPayload(resp) # "" THEN "BackendError" ELSE "none",
   resp |-> IF r.exc = "none" THEN resp ELSE "none",
   payload |-> IF r.exc = "none" THEN ErrorPayload(resp) ELSE "",
   data |-> IF r.exc = "none" /\ ErrorPayload(resp) = "" THEN DataOf(resp) ELSE "empty"]

\* str(e) of the exception a client method raised: the f-string of the
\* method around the payload, or the message of the ValueError
ExceptionMessage(op, r) ==
  IF r.exc = "BackendError" THEN <<"Supabase ", op, " error: ", r.payload>>
  ELSE IF r.exc = "none" THEN <<>>
  ELSE <<r.exc>>

\* utils.format_error_response(error)
FormatErrorResponse(msg) ==
  <<"Error: ">> \o msg \o <<"\n\nDetails:\n", "traceback">>

\* SupabaseClient.query_table
QueryTable(filters, raw, order, limit, offset, resp) ==
  Execute(QueryChain(filters, raw, order, limit, offset), resp)

\* SupabaseClient.update_records
UpdateRecords(filters, raw, resp) ==
  Execute(ApplyRawFilters(EqCalls(filters.f), raw), resp)

\* SupabaseClient.delete_records
DeleteRecords(filters, raw, resp) ==
  Execute(ApplyRawFilters(EqCalls(filters.f), raw), resp)

\* SupabaseClient.insert_record
InsertRecord(resp) ==
  Execute([calls |-> <<>>, src |-> <<>>, parsed |-> <<>>, diag |-> <<>>, exc |-> "none"], resp)


(***************************************************************************)
(* mod.py commands over the REST client.                                   *)
(***************************************************************************)
\* get_db_client(): SupabaseClient.get_instance() raises ValueError when
\* SUPABASE_URL or SUPABASE_KEY is missing, and the service returns None
GetDbClient(configured) == configured

\* what a command returns around a client method: "unavailable" without a
\* client, the text of format_error_response when the method raised,
\* otherwise the empty or the success message
CommandReturn(configured, r, emptyText) ==
  IF ~GetDbClient(configured) THEN "unavailable"
  ELSE IF r.exc # "none" THEN "error_text"
  ELSE IF r.data = "empty" THEN emptyText
  ELSE "success"

\* the word of a command's client method in its error message
OpWord(cmd) ==
  CASE cmd = "query_db" -> "query" [] cmd = "insert_db" -> "insert"
    [] cmd = "update_db" -> "update" [] OTHER -> "delete"

\* the record a command leaves behind: its arguments, what its client method
\* did, the kind of text it returned (ret) and, for an error, the text
Outcome(cmd, configured, filters, raw, order, limit, offset, r, emptyText) ==
  LET ran == GetDbClient(configured) IN
  [cmd |-> cmd, filters |-> filters, raw |-> raw, order |-> order,
   limit |-> limit, offset |-> offset,
   calls |-> IF ran THEN r.calls ELSE <<>>,
   src |-> IF ran THEN r.src ELSE <<>>,
   parsed |-> IF ran THEN r.parsed ELSE <<>>,
   diag |-> IF ran THEN r.diag ELSE <<>>,
   executed |-> ran /\ r.executed,
   exc |-> IF ran THEN r.exc ELSE "none",
   resp |-> IF ran THEN r.resp ELSE "none",
   text |-> IF ran /\ r.exc # "none"
            THEN FormatErrorResponse(ExceptionMessage(OpWord(cmd), r))
            ELSE <<>>,
   ret |-> CommandReturn(configured, r, emptyText)]

(***************************************************************************)
(* Inputs.                                                                 *)
(***************************************************************************)
ColC == <<"c">>
ColD == <<"d">>
ColE == <<"e">>

\* raw value texts: digits of every class, the recognised words in several
\* cases, plain text, the empty value, values containing dots
ValueTexts ==
  { <<"5">>, <<"0", "5">>, <<"sup2">>, <<"ar3">>, <<"5", "sup2">>,
    <<"n", "u", "l", "l">>, <<"N", "U", "L", "L">>, <<"T", "r", "u", "e">>,
    <<"f", "a", "l", "s", "e">>, <<"x">>, <<>>, <<"5", ".", "5">>,
    <<"%", "x", ".", "c">>, <<"5", "x">> }

\* operator texts: allowed operators, other callable attributes of the
\* query, names the query does not have
OperatorTexts == {OpEq, OpGt, OpIs, OpLimit, OpExecute, <<"z">>, <<>>}

Clause3(col, op, val) == col \o <<".">> \o op \o <<".">> \o val

\* the clauses _apply_raw_filters is tried on
FilterClauses ==
  { Clause3(ColC, OpEq, v) : v \in ValueTexts }
  \cup { Clause3(ColD, op, <<"5">>) : op \in OperatorTexts }
  \cup { <<>>, ColC, ColC \o <<".">> \o OpEq,
         <<" ">> \o Clause3(ColC, OpEq, <<"x">>) \o <<" ">>,
         <<" ">> \o ColC \o <<".">> \o OpEq \o <<" ">> }

\* the clauses the commands are tried on
CrudClauses ==
  { Clause3(ColC, OpEq, <<"5">>), Clause3(ColD, OpGt, <<"x">>),
    ColC \o <<".">> \o OpEq, Clause3(ColC, <<"z">>, <<"5">>),
    Clause3(ColD, OpLimit, <<"5">>), Clause3(ColC, OpEq, <<"sup2">>) }

\* every sequence of 1..n elements of S
SeqsUpTo(S, n) == UNION { [1..k -> S] : k \in 1..n }

\* raw_filters arguments: absent, empty, or up to MaxClauses clauses joined
\* with commas
RawInputs(clauses) ==
  {None, Some(<<>>)} \cup { Some(Join(cs, ",")) : cs \in SeqsUpTo(clauses, MaxClauses) }

\* the value an equality filter gives a column
FilterValue(col) ==
  CASE col = ColC -> IntV(1) [] col = ColD -> StrV(<<"x">>) [] OTHER -> BoolV(TRUE)

\* filters arguments: absent, or a dict of up to MaxFilters distinct columns
FilterInputs ==
  {NoDict, Dict(<<>>)}
  \cup { Dict([i \in 1..Len(cols) |-> [col |-> cols[i], v |-> FilterValue(cols[i])]]) :
           cols \in { q \in SeqsUpTo({ColC, ColD, ColE}, MaxFilters) :
                        \A i, j \in 1..Len(q) : i # j => q[i] # q[j] } }

\* order arguments
OrderInputs ==
  { None, Some(ColC), Some(ColC \o <<".", "d", "e", "s", "c">>),
    Some(ColC \o <<".", "x", ".", "d", "e", "s", "c">>) }

\* limit and offset arguments
PageInputs == {NoInt, SomeInt(0), SomeInt(2)}

\* what the backend answers to execute()
Responses == {"error", "error_rows", "empty", "rows"}

(***************************************************************************)
(* The database catalog and the two introspection backends.                *)
(***************************************************************************)
\* the tables of the public schema
CatalogTables == {"orders", "users"}

\* the table names a caller may ask for; "ghost" is not in the catalog
TableNames == CatalogTables \cup {"ghost"}

\* a row of information_schema.columns as the backends return it
Column(name, type, nullable, default) ==
  [column_name |-> name, data_type |-> type, is_nullable |-> nullable,
   column_default |-> default]

\* the columns of a table by ordinal position; no rows for an unknown table
CatalogColumns(t) ==
  CASE t = "users" -> << Column("id", "integer", "NO", ""),
                         Column("role", "text", "YES", "'guest'") >>
    [] t = "orders" -> << Column("id", "integer", "NO", ""),
                          Column("user_id", "integer", "YES", "") >>
    [] OTHER -> << >>

\* the foreign keys of a table
CatalogRelationships(t) ==
  CASE t = "orders" -> << [table_name |-> "orders", column_name |-> "user_id",
                           foreign_table_name |-> "users",
                           foreign_column_name |-> "id"] >>
    [] OTHER -> << >>

\* PostgresClient._instance before the first get_instance
NoInstance == [exists |-> FALSE, conn |-> "none"]

\* a constructor that accepts a missing connection string
PgInitDeferred(configured) == [exc |-> "none", conn |-> "none"]

\* PostgresClient.__init__: conn is None, and a missing
\* POSTGRES_CONNECTION_STRING raises ValueError
PgInit(configured) ==
  [exc |-> IF configured THEN "none" ELSE "ValueError", conn |-> "none"]

\* PostgresClient.close on the instance
PgClose(inst) ==
  IF inst.exists /\ inst.conn = "open" THEN [inst EXCEPT !.conn = "none"] ELSE inst

\* PostgresClient.get_instance: close the previous instance (an error there
\* is swallowed), construct a new one and make it the singleton
PgGetInstance(inst, configured) ==
  LET closed == PgClose(inst)
      c == PgInit(configured)
  IN
  IF c.exc # "none" THEN [inst |-> closed, exc |-> c.exc]
  ELSE [inst |-> [exists |-> TRUE, conn |-> c.conn], exc |-> "none"]

\* the running state of a handler that uses the direct-SQL client
PgState(inst) == [inst |-> inst, exc |-> "none", connects |-> 0, queries |-> 0]

\* PostgresClient.execute_query: _get_connection connects when conn is None
\* or closed (psycopg2.connect raises when it cannot), then the cursor
\* executes; a failing query is rolled back and re-raised
PgExecuteQuery(st, configured, connectOk, queryOk) ==
  LET mustConnect == st.inst.conn # "open"
      connected == ~mustConnect \/ (configured /\ connectOk)
      st1 == [st EXCEPT !.connects = IF mustConnect THEN @ + 1 ELSE @,
                        !.inst.conn = IF connected THEN "open" ELSE @]
  IN
  IF st.exc # "none" THEN st
  ELSE IF ~connected THEN [st1 EXCEPT !.exc = "PgError"]
  ELSE [st1 EXCEPT !.queries = @ + 1,
                   !.exc = IF queryOk THEN "none" ELSE "PgError"]

\* what the direct-SQL backend does with a lookup of one table
PgOutcomes == {"ok", "describe_raises", "relationships_raise"}

\* what the REST backend does with a lookup of one table
RestOutcomes == {"ok", "raises"}

\* pg_client.describe_table(t) then pg_client.get_table_relationships(t)
PgLookup(st, configured, connectOk, outcome) ==
  PgExecuteQuery(PgExecuteQuery(st, configured, connectOk, outcome # "describe_raises"),
                 configured, connectOk, outcome # "relationships_raise")

\* the entry db_inject_schema_info stores for a table
TableInfo(t, via) ==
  [table |-> t, via |-> via, columns |-> CatalogColumns(t),
   relationships |-> CatalogRelationships(t)]

RECURSIVE InjectLoopPg(_, _, _, _, _, _)
\* mod.py:134-154 with use_postgres: acc is <<handler state, tables_info>>;
\* an exception from either lookup makes the service return None
InjectLoopPg(tables, k, acc, configured, connectOk, pgOut) ==
  IF k > Len(tables) THEN acc
  ELSE
    LET st == PgLookup(acc.st, configured, connectOk, pgOut[tables[k]]) IN
    IF st.exc # "none" THEN [acc EXCEPT !.st = st, !.ret = "None"]
    ELSE InjectLoopPg(tables, k + 1,
           [acc EXCEPT !.st = st, !.info = Append(@, TableInfo(tables[k], "pg"))],
           configured, connectOk, pgOut)

RECURSIVE InjectLoopRest(_, _, _, _)
\* mod.py:134-154 without use_postgres: an exception from the REST client
\* reaches the outer handler, which returns None
InjectLoopRest(tables, k, acc, restOut) ==
  IF k > Len(tables) THEN acc
  ELSE IF restOut[tables[k]] # "ok"
  THEN [acc EXCEPT !.ret = "None", !.exc = "RestError", !.restCalls = @ + 1]
  ELSE InjectLoopRest(tables, k + 1,
         [acc EXCEPT !.restCalls = @ + 2,
                     !.info = Append(@, TableInfo(tables[k], "rest"))],
         restOut)

\* the line of a column as both formatters write it: an empty or missing
\* column_default is falsy and adds nothing
ColumnLine(c) ==
  <<"  - ", c.column_name, ": ", c.data_type, " ",
    IF c.is_nullable = "YES" THEN "NULL" ELSE "NOT NULL">>
  \o (IF c.column_default # "" THEN <<" DEFAULT ", c.column_default>> ELSE <<>>)

\* the line of a relationship as both formatters write it; the arrow is the
\* character U+2192
RelationLine(rel) ==
  <<"  - ", rel.column_name, " → ", rel.foreign_table_name, ".",
    rel.foreign_column_name>>

RECURSIVE SchemaForAgentLoudly(_, _, _)
\* a formatter that writes the Relationships: heading for every table
SchemaForAgentLoudly(info, k, text) ==
  IF k > Len(info) THEN text
  ELSE
    LET cols == info[k].columns
        relations == info[k].relationships
    IN
    SchemaForAgentLoudly(info, k + 1,
      text \o << <<"Table: ", info[k].table>>, <<"Columns:">> >>
           \o [i \in 1..Len(cols) |-> ColumnLine(cols[i])]
           \o << <<"Relationships:">> >>
           \o [i \in 1..Len(relations) |-> RelationLine(relations[i])]
           \o << <<>> >>)

RECURSIVE SchemaForAgent(_, _, _)
\* the loop of SupabaseClient.format_schema_for_agent over tables_info from
\* entry k on; text is schema_text so far, as its lines, each line the
\* pieces its f-string puts together
SchemaForAgent(info, k, text) ==
  IF k > Len(info) THEN text
  ELSE
    LET cols == info[k].columns
        relations == info[k].relationships
    IN
    SchemaForAgent(info, k + 1,
      text \o << <<"Table: ", info[k].table>>, <<"Columns:">> >>
           \o [i \in 1..Len(cols) |-> ColumnLine(cols[i])]
           \o (IF Len(relations) > 0
               THEN << <<"Relationships:">> >>
                    \o [i \in 1..Len(relations) |-> RelationLine(relations[i])]
               ELSE << >>)
           \o << <<>> >>)

\* SupabaseClient.format_schema_for_agent(tables_info)
FormatSchemaForAgent(info) ==
  SchemaForAgent(info, 1, << <<"DATABASE SCHEMA INFORMATION:">>, <<>> >>)

RECURSIVE SchemaFromPostgresData(_, _, _)
\* the loop of format_schema_from_postgres_data
SchemaFromPostgresData(info, k, text) ==
  IF k > Len(info) THEN text
  ELSE
    LET cols == info[k].columns
        relations == info[k].relationships
    IN
    SchemaFromPostgresData(info, k + 1,
      text \o << <<"Table: ", info[k].table>>, <<"Columns:">> >>
           \o [i \in 1..Len(cols) |-> ColumnLine(cols[i])]
           \o (IF Len(relations) > 0
               THEN << <<"Relationships:">> >>
                    \o [i \in 1..Len(relations) |-> RelationLine(relations[i])]
               ELSE << >>)
           \o << <<>> >>)

\* format_schema_from_postgres_data(tables_info)
FormatSchemaFromPostgresData(info) ==
  SchemaFromPostgresData(info, 1, << <<"DATABASE SCHEMA INFORMATION:">>, <<>> >>)

\* an optional list argument
NoList == [some |-> FALSE, l |-> <<>>]
List(l) == [some |-> TRUE, l |-> l]

\* db_inject_schema_info(agent_name, tables): inst is the singleton on
\* entry, enabled the agent's enabled_tables setting
DbInjectSchemaInfo(inst, pgConf, restConf, tables, enabled, connectOk, pgOut, restOut) ==
  LET g == PgGetInstance(inst, pgConf)
      usePostgres == g.exc = "none"
      \* mod.py:118-121
      chosen == IF tables.some THEN tables.l ELSE enabled
      start == [st |-> PgState(g.inst), ret |-> "text", exc |-> "none",
                via |-> IF usePostgres THEN "pg" ELSE "rest",
                info |-> <<>>, restCalls |-> 0, text |-> <<>>]
      \* mod.py:157-163
      pgText(r) == IF r.ret = "text"
                   THEN [r EXCEPT !.text = FormatSchemaFromPostgresData(r.info)] ELSE r
      restText(r) == IF r.ret = "text"
                     THEN [r EXCEPT !.text = FormatSchemaForAgent(r.info)] ELSE r
  IN
  IF ~usePostgres /\ ~GetDbClient(restConf)
  THEN [start EXCEPT !.ret = "unavailable", !.via = "none"]
  \* mod.py:123-125: the call names pg_client and db_client, and one of the
  \* two is unassigned on either path
  ELSE IF Len(chosen) = 0
  THEN [start EXCEPT !.ret = "None", !.exc = "UnboundLocalError"]
  ELSE IF usePostgres
  THEN LET r == InjectLoopPg(chosen, 1, start, pgConf, connectOk, pgOut) IN
       pgText([r EXCEPT !.exc = r.st.exc])
  ELSE restText(InjectLoopRest(chosen, 1, start, restOut))

RECURSIVE PgRun(_, _, _, _)
\* the direct-SQL queries of one command in turn; oks[i] says whether
\* query i succeeds
PgRun(st, configured, connectOk, oks) ==
  IF Len(oks) = 0 THEN st
  ELSE PgRun(PgExecuteQuery(st, configured, connectOk, oks[1]), configured, connectOk, Tail(oks))

\* the REST client calls of one command in turn, up to the first that raises
RestRun(oks) ==
  LET bad == { i \in 1..Len(oks) : ~oks[i] } IN
  IF bad = {} THEN [calls |-> Len(oks), exc |-> "none"]
  ELSE [calls |-> CHOOSE i \in bad : \A j \in bad : i <= j, exc |-> "RestError"]

\* the three introspection commands take the same path to their rows: the
\* direct-SQL client first, the REST client when get_instance raises
\* ValueError; any other exception reaches the outer handler.
\* fallbackOnEmpty is list_db_tables' second REST path, taken when the
\* direct-SQL listing is empty.  pgRows and restRows say whether the first
\* query of the backend returns rows.
Introspect(inst, pgConf, restConf, connectOk, pgOks, pgRows, restOks, restRows, fallbackOnEmpty) ==
  LET g == PgGetInstance(inst, pgConf)
      st == PgRun(PgState(g.inst), pgConf, connectOk, pgOks)
      rr == RestRun(restOks)
      rest == [st |-> PgState(g.inst), via |-> "rest", restCalls |-> rr.calls,
               exc |-> rr.exc,
               rows |-> IF rr.exc = "none" /\ restRows THEN "rows" ELSE "empty",
               ret |-> "rows"]
      norest == [st |-> PgState(g.inst), via |-> "none", restCalls |-> 0,
                 exc |-> "none", rows |-> "empty", ret |-> "unavailable"]
  IN
  IF g.exc # "none"
  THEN IF GetDbClient(restConf) THEN rest ELSE norest
  ELSE IF st.exc # "none"
  THEN [st |-> st, via |-> "pg", restCalls |-> 0, exc |-> st.exc,
        rows |-> "empty", ret |-> "rows"]
  ELSE IF fallbackOnEmpty /\ ~pgRows
  THEN IF GetDbClient(restConf) THEN [rest EXCEPT !.st = st] ELSE [norest EXCEPT !.st = st]
  ELSE [st |-> st, via |-> "pg", restCalls |-> 0, exc |-> "none",
        rows |-> IF pgRows THEN "rows" ELSE "empty", ret |-> "rows"]

\* the kind of text a command returns for what Introspect found
IntrospectReturn(r, emptyText, rowsText) ==
  IF r.ret = "unavailable" THEN "unavailable"
  ELSE IF r.exc # "none" THEN "error_text"
  ELSE IF r.rows = "empty" THEN emptyText
  ELSE rowsText

\* tables arguments: absent, or up to MaxTables distinct table names
TableLists ==
  {<<>>} \cup { q \in SeqsUpTo(TableNames, MaxTables) :
                  \A i, j \in 1..Len(q) : i # j => q[i] # q[j] }

TablesInputs == {NoList} \cup { List(l) : l \in TableLists }

\* enabled_tables settings of the agent
EnabledInputs == { <<>>, <<"users">> }

(***************************************************************************)
(* The message list and the inject_db_schema pipe.  A string is the        *)
(* sequence of its pieces; a delimiter is one piece, and so is a schema    *)
(* text, which carries the catalog version it was read from.               *)
(***************************************************************************)
Piece(k) == [k |-> k, ver |-> 0, body |-> << >>]

\* utils.DB_SCHEMA_START_DELIMITER and DB_SCHEMA_END_DELIMITER
DB_SCHEMA_START_DELIMITER == Piece("<!-- DB_SCHEMA_START -->")
DB_SCHEMA_END_DELIMITER == Piece("<!-- DB_SCHEMA_END -->")

\* the text db_inject_schema_info returned, read from catalog version ver
SchemaPiece(ver, body) == [k |-> "schema", ver |-> ver, body |-> body]

\* x in content, for a delimiter x
Contains(content, x) == \E i \in 1..Len(content) : content[i] = x

\* messages: content is a string (kind "str", in s) or a list of typed
\* parts (kind "list", in parts)
StrMessage(role, s) == [role |-> role, kind |-> "str", s |-> s, parts |-> << >>]
ListMessage(role, parts) == [role |-> role, kind |-> "list", s |-> << >>, parts |-> parts]
TextPart(text) == [type |-> "text", text |-> text]

\* f"\n\n{START}\n{schema_info}\n{END}"
DelimitedSchema(schema_info) ==
  << Piece("\n\n"), DB_SCHEMA_START_DELIMITER, Piece("\n"), schema_info,
     Piece("\n"), DB_SCHEMA_END_DELIMITER >>

\* mod.py:596-608: system_msg['content'] += delimited_schema, or a new text
\* part appended to the list
AppendSchema(msg, schema_info) ==
  IF msg.kind = "str"
  THEN [msg EXCEPT !.s = @ \o DelimitedSchema(schema_info)]
  ELSE [msg EXCEPT !.parts = Append(@, TextPart(DelimitedSchema(schema_info)))]

\* what the pipe's call of db_inject_schema_info gives it: the call is made
\* only when no schema is in the system message, with enabled_tables or
\* None; r is the service's outcome
SchemaInfo(schemaExists, r, ver) ==
  IF schemaExists THEN [some |-> FALSE, piece |-> Piece("")]
  ELSE IF r.ret = "text" THEN [some |-> TRUE, piece |-> SchemaPiece(ver, r.text)]
  ELSE IF r.ret = "unavailable"
  THEN [some |-> TRUE, piece |-> Piece("Error: Database client unavailable")]
  ELSE [some |-> FALSE, piece |-> Piece("")]

\* inject_db_schema(data, context): messages is data['messages'], agent
\* says whether context has an agent name, enabled is the agent's
\* enabled_tables, r the outcome of db_inject_schema_info were it called
\* and ver the catalog version it would read
InjectDbSchemaPipe(messages, agent, enabled, r, ver) ==
  LET hasSystem == Len(messages) > 0 /\ messages[1].role = "system"
      schemaExists ==
        /\ hasSystem
        /\ messages[1].kind = "str"
        /\ Contains(messages[1].s, DB_SCHEMA_START_DELIMITER)
        /\ Contains(messages[1].s, DB_SCHEMA_END_DELIMITER)
      info == SchemaInfo(schemaExists, r, ver)
      skipped == Len(messages) = 0 \/ ~agent
      called == ~skipped /\ ~schemaExists
      injected == called /\ info.some /\ hasSystem
  IN
  [cmd |-> "inject_db_schema", agent |-> agent, enabled |-> enabled,
   before |-> messages, hasSystem |-> hasSystem,
   schemaExists |-> ~skipped /\ schemaExists,
   called |-> called,
   ver |-> IF called THEN ver ELSE 0,
   available |-> called /\ info.some,
   piece |-> IF called /\ info.some THEN info.piece ELSE Piece(""),
   injected |-> injected,
   messages |-> IF injected
                THEN [messages EXCEPT ![1] = AppendSchema(@, info.piece)]
                ELSE messages]

\* the messages the host may hand to the pipe
PlainText == << Piece("hello") >>
OldBlock ==
  << Piece("see"), DB_SCHEMA_START_DELIMITER, Piece("old schema"),
     DB_SCHEMA_END_DELIMITER >>

MessageInputs ==
  { StrMessage("system", PlainText),
    ListMessage("system", << TextPart(PlainText) >>),
    StrMessage("user", PlainText),
    StrMessage("user", OldBlock) }

MessageLists == SeqsUpTo(MessageInputs, MaxMessages)

\* utils.py:77-80 on the content of one message: find gives the first
\* occurrence of each delimiter, and the two slices are joined whatever
\* the order of the two places
CleanContent(content) ==
  IF Contains(content, DB_SCHEMA_START_DELIMITER)
     /\ Contains(content, DB_SCHEMA_END_DELIMITER)
  THEN LET start_idx == IndexOf(content, DB_SCHEMA_START_DELIMITER)
           end_idx == IndexOf(content, DB_SCHEMA_END_DELIMITER)
       IN SubSeq(content, 1, start_idx - 1) \o SubSeq(content, end_idx + 1, Len(content))
  ELSE content

\* utils.clean_db_schema_from_messages(messages): the messages whose role
\* is not system and whose content is a str are cleaned in place
CleanDbSchemaFromMessages(messages) ==
  [i \in 1..Len(messages) |->
     IF messages[i].role # "system" /\ messages[i].kind = "str"
     THEN [messages[i] EXCEPT !.s = CleanContent(@)]
     ELSE messages[i]]

\* messages given to the cleaning; their contents: no block, one block,
\* two blocks, the end delimiter before the start delimiter, a start
\* delimiter alone
CleanInputs ==
  LET twoBlocks == OldBlock \o << Piece("and") >> \o OldBlock
      endFirst == << DB_SCHEMA_END_DELIMITER, Piece("between"),
                     DB_SCHEMA_START_DELIMITER >>
      startOnly == << Piece("see"), DB_SCHEMA_START_DELIMITER >>
  IN
  { StrMessage(role, content) :
      role \in {"system", "user"},
      content \in {PlainText, OldBlock, twoBlocks, endFirst, startOnly} }
  \cup { ListMessage("user", << TextPart(OldBlock) >>) }

(***************************************************************************)
(* SupabaseClient.execute_sql.                                             *)
(***************************************************************************)
\* the keywords execute_sql looks for
BlockedKeywords ==
  { <<"d", "r", "o", "p">>,
    <<"t", "r", "u", "n", "c", "a", "t", "e">>,
    <<"d", "e", "l", "e", "t", "e">>,
    <<"u", "p", "d", "a", "t", "e">>,
    <<"a", "l", "t", "e", "r">> }

\* an execute_sql that passes the statement on when unsafe is set
ExecuteSqlTrusting(query, unsafe) ==
  LET query_lower == Strip(Lower(query))
      \* keyword in query_lower
      isSubstring(word, text) ==
        \E i \in 1..(Len(text) - Len(word) + 1) :
          SubSeq(text, i, i + Len(word) - 1) = word
      blocked == \E k \in BlockedKeywords : isSubstring(k, query_lower)
  IN
  [exc |-> IF ~unsafe /\ blocked THEN "ValueError"
           ELSE IF unsafe THEN "none" ELSE "NotImplementedError",
   sent |-> unsafe]

\* SupabaseClient.execute_sql(query, unsafe): the keyword check when unsafe
\* is not set, then the raise that ends every call; no request is built
ExecuteSql(query, unsafe) ==
  LET query_lower == Strip(Lower(query))
      \* keyword in query_lower
      isSubstring(word, text) ==
        \E i \in 1..(Len(text) - Len(word) + 1) :
          SubSeq(text, i, i + Len(word) - 1) = word
      blocked == \E k \in BlockedKeywords : isSubstring(k, query_lower)
  IN
  [exc |-> IF ~unsafe /\ blocked THEN "ValueError" ELSE "NotImplementedError",
   sent |-> FALSE]

\* query arguments
SqlInputs ==
  { <<"d", "r", "o", "p", " ", "t">>,
    <<"D", "R", "O", "P", " ", "t">>,
    <<" ", "D", "r", "o", "p">>,
    <<"s", "e", "l", "e", "c", "t", " ", "1">>,
    <<"s", "e", "l", "e", "c", "t", " ", "u", "p", "d", "a", "t", "e", "d", "_", "a", "t">>,
    <<"d", "r", "o", " ", "p">>,
    <<>>,
    <<"a", "l", "t", "e", "r">>,
    <<"t", "r", "u", "n", "c", "a", "t", "e", " ", "t">>,
    <<"d", "e", "l", "e", "t", "e">> }

(***************************************************************************)
(* Foreign keys in the catalog views, and the two relationship lookups.    *)
(***************************************************************************)
\* the constraints a catalog may hold: one column, two columns, and the
\* name of another table's constraint.  A constraint is a FOREIGN KEY of
\* the public schema on table; each of its cols references ftable.fcol
ConstraintInputs ==
  LET fk(col, ftable, fcol) == [col |-> col, ftable |-> ftable, fcol |-> fcol]
      con(name, table, cols) == [name |-> name, table |-> table, cols |-> cols]
  IN
  { con("fk_user", "orders", << fk("user_id", "users", "id") >>),
    con("fk_line", "items", << fk("order_id", "lines", "order_id"),
                               fk("line_no", "lines", "no") >>),
    con("fk_user", "items", << fk("owner_id", "users", "id") >>),
    con("fk_order", "lines", << fk("order_id", "orders", "id") >>) }

\* information_schema.table_constraints, FOREIGN KEY rows of public
TableConstraints(cat) ==
  { [constraint_name |-> c.name, table_name |-> c.table] : c \in cat }

\* information_schema.key_column_usage: the constrained columns
KeyColumnUsage(cat) ==
  UNION { { [constraint_name |-> c.name, table_name |-> c.table,
             column_name |-> c.cols[i].col] : i \in 1..Len(c.cols) } : c \in cat }

\* information_schema.constraint_column_usage: the referenced columns
ConstraintColumnUsage(cat) ==
  UNION { { [constraint_name |-> c.name, table_name |-> c.cols[i].ftable,
             column_name |-> c.cols[i].fcol] : i \in 1..Len(c.cols) } : c \in cat }

\* a relationship record as both clients return it
Relationship(t, col, ft, fc) ==
  [table_name |-> t, column_name |-> col, foreign_table_name |-> ft,
   foreign_column_name |-> fc]

\* PostgresClient.get_table_relationships(table): tc JOIN kcu JOIN ccu on
\* the constraint name (all rows are of schema public), filtered by table,
\* and the four columns selected
PgGetTableRelationships(cat, table) ==
  LET joined ==
  { r \in
      UNION { UNION { { [tc |-> tc, kcu |-> kcu, ccu |-> ccu] :
                          ccu \in { x \in ConstraintColumnUsage(cat) :
                                      x.constraint_name = tc.constraint_name } } :
                      kcu \in { x \in KeyColumnUsage(cat) :
                                  x.constraint_name = tc.constraint_name } } :
              tc \in TableConstraints(cat) } :
      table = "" \/ r.tc.table_name = table }
  IN
  { Relationship(r.tc.table_name, r.kcu.column_name, r.ccu.table_name,
                 r.ccu.column_name) : r \in joined }

\* SupabaseClient.get_table_relationships(table): the constraints of the
\* table, and for each the first row of its key_column_usage lookup and
\* the first row of its constraint_column_usage lookup, both by constraint
\* name alone.  The lookups have no ORDER BY: first is any of the rows.
\* The result is every set of records the method may return.
RestGetTableRelationships(cat, table) ==
  LET constraints == { x \in TableConstraints(cat) : table = "" \/ x.table_name = table }
      kcu(c) == { x \in KeyColumnUsage(cat) : x.constraint_name = c.constraint_name }
      ccu(c) == { x \in ConstraintColumnUsage(cat) : x.constraint_name = c.constraint_name }
      found == { c \in constraints : kcu(c) # {} /\ ccu(c) # {} }
      records(c) == { Relationship(c.table_name, k.column_name, u.table_name, u.column_name) :
                        k \in kcu(c), u \in ccu(c) }
      all == UNION { records(c) : c \in found }
  IN
  { { first[c] : c \in found } :
      first \in { f \in [found -> all] : \A c \in found : f[c] \in records(c) } }

(***************************************************************************)
(* Two introspection requests whose direct-SQL client calls interleave.    *)
(* Instances are numbered in the order they are constructed; 0 is None.    *)
(***************************************************************************)
Requests == {1, 2}

\* PostgresClient.get_instance by request r: close() on the singleton,
\* which closes its open connection and sets conn to None, then a new
\* instance becomes the singleton and is returned to r.  inUse records
\* that the closed connection was one another request had opened and had
\* a further query to run on.
ConcPgGetInstance(c, r) ==
  LET old == c.singleton
      new == c.made + 1
      open == old # 0 /\ c.conn[old] = "open"
      inUse == open /\ \E q \in Requests \ {r} :
                          c.mine[q] = old /\ c.at[q] = "described"
  IN
  [c EXCEPT !.conn = [i \in DOMAIN c.conn |->
                        IF i = old \/ i = new THEN "none" ELSE c.conn[i]],
            !.singleton = new,
            !.made = new,
            !.mine[r] = new,
            !.at[r] = "got",
            !.closedInUse = @ \/ inUse]

\* a query of request r on the instance it holds: _get_connection connects
\* when conn is None or closed, then the query runs
ConcPgExecuteQuery(c, r, next) ==
  [c EXCEPT !.conn[c.mine[r]] = "open", !.at[r] = next]

(***************************************************************************)
(* State.                                                                  *)
(***************************************************************************)
VARIABLES
  rel,            \* the last relationship lookup on both clients
  esql,           \* the last execute_sql call and how it ended
  cleaned,        \* the last clean_db_schema_from_messages call
  conc,           \* two concurrent requests and the instances they hold
  msgs,           \* data['messages'], the list the pipe works on
  catalog,        \* the version of the database catalog
  runs,           \* the runs of the pipe on msgs so far
  pipe,           \* the last run of the pipe and what it did
  pc,             \* "idle", or "done" while a call's outcome is being read
  fin,            \* the raw_filters argument of the last _apply_raw_filters
  fout,           \* what that call did
  restConfigured, \* SUPABASE_URL and SUPABASE_KEY are set
  crud,           \* the last CRUD command and what it did
  pgConfigured,   \* POSTGRES_CONNECTION_STRING is set
  pgInstance,     \* PostgresClient._instance and its conn
  intro           \* the last introspection call and what it did

filterVars == <<fin, fout>>
introVars == <<pgConfigured, pgInstance, intro>>
pipeVars == <<msgs, catalog, runs, pipe>>
auxVars == <<rel, esql, cleaned, conc>>
vars == <<pc, fin, fout, restConfigured, crud, pgConfigured, pgInstance, intro,
          msgs, catalog, runs, pipe, rel, esql, cleaned, conc>>

NoOutcome ==
  [cmd |-> "none", filters |-> NoDict, raw |-> None, order |-> None,
   limit |-> NoInt, offset |-> NoInt, calls |-> <<>>, src |-> <<>>,
   parsed |-> <<>>, diag |-> <<>>, executed |-> FALSE, exc |-> "none",
   resp |-> "none", text |-> <<>>, ret |-> "none"]

NoFilterCall == [ApplyRawFilters(<<>>, None) EXCEPT !.exc = "pending"]

\* the backends' behaviour when no table lookup is under way
AllOk == [t \in TableNames |-> "ok"]

NoIntro ==
  [cmd |-> "none", table |-> "", arg |-> NoList, enabled |-> <<>>,
   tables |-> <<>>, connectOk |-> TRUE, pgExc |-> "none",
   pgOut |-> AllOk, restOut |-> AllOk, ret |-> "none", via |-> "none",
   exc |-> "none", info |-> <<>>, text |-> <<>>, pgConnects |-> 0,
   pgQueries |-> 0, restCalls |-> 0]

NoPipe ==
  [cmd |-> "none", agent |-> FALSE, enabled |-> << >>, before |-> << >>,
   hasSystem |-> FALSE, schemaExists |-> FALSE, called |-> FALSE, ver |-> 0,
   available |-> FALSE, piece |-> Piece(""), injected |-> FALSE,
   messages |-> << >>]

NoRel == [cmd |-> "none", cat |-> {}, table |-> "", rest |-> {}, pg |-> {}]

NoSql == [cmd |-> "none", query |-> << >>, unsafe |-> FALSE, exc |-> "none",
          sent |-> FALSE]

NoClean == [cmd |-> "none", before |-> << >>, after |-> << >>, twice |-> << >>]

NoRequests ==
  [at |-> [r \in Requests |-> "start"], mine |-> [r \in Requests |-> 0],
   singleton |-> 0, made |-> 0, conn |-> [i \in 1..MaxInstances |-> "none"],
   closedInUse |-> FALSE]

Init ==
  /\ conc = NoRequests
  /\ cleaned = NoClean
  /\ rel = NoRel
  /\ esql = NoSql
  /\ msgs = << >>
  /\ catalog = 1
  /\ runs = 0
  /\ pipe = NoPipe
  /\ pc = "idle"
  /\ fin = None
  /\ fout = NoFilterCall
  /\ restConfigured \in BOOLEAN
  /\ crud = NoOutcome
  /\ pgConfigured \in BOOLEAN
  /\ pgInstance = NoInstance
  /\ intro = NoIntro

(***************************************************************************)
(* Actions.  Calls are made one at a time: a call is made when idle, and   *)
(* Return discards what it left behind.                                    *)
(***************************************************************************)
\* a call of SupabaseClient._apply_raw_filters on a fresh query
ApplyFilters ==
  /\ pc = "idle"
  /\ pc' = "done"
  /\ \E raw \in RawInputs(FilterClauses) :
       /\ fin' = raw
       /\ fout' = ApplyRawFilters(<<>>, raw)
  /\ UNCHANGED <<restConfigured, crud, introVars, pipeVars, auxVars>>

\* the query_db command
QueryDb ==
  /\ pc = "idle"
  /\ pc' = "done"
  /\ \E filters \in FilterInputs, raw \in RawInputs(CrudClauses), order \in OrderInputs,
        limit \in PageInputs, offset \in PageInputs, resp \in Responses :
       crud' = Outcome("query_db", restConfigured, filters, raw, order, limit, offset,
                       QueryTable(filters, raw, order, limit, offset, resp), "no_records")
  /\ UNCHANGED <<restConfigured, filterVars, introVars, pipeVars, auxVars>>

\* the insert_db command
InsertDb ==
  /\ pc = "idle"
  /\ pc' = "done"
  /\ \E resp \in Responses :
       crud' = Outcome("insert_db", restConfigured, NoDict, None, None, NoInt, NoInt,
                       InsertRecord(resp), "no_data")
  /\ UNCHANGED <<restConfigured, filterVars, introVars, pipeVars, auxVars>>

\* the update_db command: filters or {} is passed on
UpdateDb ==
  /\ pc = "idle"
  /\ pc' = "done"
  /\ \E filters \in FilterInputs, raw \in RawInputs(CrudClauses), resp \in Responses :
       crud' = Outcome("update_db", restConfigured, filters, raw, None, NoInt, NoInt,
                       UpdateRecords(filters, raw, resp), "no_records")
  /\ UNCHANGED <<restConfigured, filterVars, introVars, pipeVars, auxVars>>

\* the delete_db command: filters or {} is passed on
DeleteDb ==
  /\ pc = "idle"
  /\ pc' = "done"
  /\ \E filters \in FilterInputs, raw \in RawInputs(CrudClauses), resp \in Responses :
       crud' = Outcome("delete_db", restConfigured, filters, raw, None, NoInt, NoInt,
                       DeleteRecords(filters, raw, resp), "no_records")
  /\ UNCHANGED <<restConfigured, filterVars, introVars, pipeVars, auxVars>>

\* the db_inject_schema_info service
DbInjectSchema ==
  /\ pc = "idle"
  /\ pc' = "done"
  /\ \E tables \in TablesInputs, enabled \in EnabledInputs, connectOk \in BOOLEAN,
        pgOut \in [TableNames -> PgOutcomes], restOut \in [TableNames -> RestOutcomes] :
       LET r == DbInjectSchemaInfo(pgInstance, pgConfigured, restConfigured, tables,
                                   enabled, connectOk, pgOut, restOut)
       IN
       /\ pgInstance' = r.st.inst
       /\ intro' = [cmd |-> "db_inject_schema_info", table |-> "",
                    arg |-> tables, enabled |-> enabled,
                    tables |-> IF tables.some THEN tables.l ELSE enabled,
                    connectOk |-> connectOk, pgExc |-> r.st.exc,
                    pgOut |-> pgOut, restOut |-> restOut,
                    ret |-> r.ret, via |-> r.via, exc |-> r.exc, info |-> r.info,
                    text |-> r.text,
                    pgConnects |-> r.st.connects, pgQueries |-> r.st.queries,
                    restCalls |-> r.restCalls]
  /\ UNCHANGED <<pgConfigured, restConfigured, crud, filterVars, pipeVars, auxVars>>

\* the record an introspection command leaves behind
CommandRecord(cmd, table, connectOk, r, ret) ==
  [cmd |-> cmd, table |-> table, arg |-> NoList, enabled |-> <<>>,
   tables |-> <<>>, connectOk |-> connectOk, pgExc |-> r.st.exc,
   pgOut |-> AllOk, restOut |-> AllOk, ret |-> ret, via |-> r.via, exc |-> r.exc,
   info |-> <<>>, text |-> <<>>, pgConnects |-> r.st.connects,
   pgQueries |-> r.st.queries, restCalls |-> r.restCalls]

\* the list_db_tables command
ListDbTables ==
  /\ pc = "idle"
  /\ pc' = "done"
  /\ \E connectOk, pgOk, pgRows, restOk, restRows \in BOOLEAN :
       LET r == Introspect(pgInstance, pgConfigured, restConfigured, connectOk,
                           <<pgOk>>, pgRows, <<restOk>>, restRows, TRUE)
       IN
       /\ pgInstance' = r.st.inst
       /\ intro' = CommandRecord("list_db_tables", "", connectOk, r,
                                 IntrospectReturn(r, "no_tables", "table_list"))
  /\ UNCHANGED <<pgConfigured, restConfigured, crud, filterVars, pipeVars, auxVars>>

\* the describe_db_table command: columns, then relationships
DescribeDbTable ==
  /\ pc = "idle"
  /\ pc' = "done"
  /\ \E table \in TableNames, connectOk, pgRows, restRows \in BOOLEAN,
        pgOks \in [1..2 -> BOOLEAN], restOks \in [1..2 -> BOOLEAN] :
       LET r == Introspect(pgInstance, pgConfigured, restConfigured, connectOk,
                           pgOks, pgRows, restOks, restRows, FALSE)
       IN
       /\ pgInstance' = r.st.inst
       /\ intro' = CommandRecord("describe_db_table", table, connectOk, r,
                                 IntrospectReturn(r, "not_found", "schema"))
  /\ UNCHANGED <<pgConfigured, restConfigured, crud, filterVars, pipeVars, auxVars>>

\* the get_db_relationships command; table "" stands for no table given
GetDbRelationships ==
  /\ pc = "idle"
  /\ pc' = "done"
  /\ \E table \in TableNames \cup {""}, connectOk, pgOk, pgRows, restOk, restRows \in BOOLEAN :
       LET r == Introspect(pgInstance, pgConfigured, restConfigured, connectOk,
                           <<pgOk>>, pgRows, <<restOk>>, restRows, FALSE)
       IN
       /\ pgInstance' = r.st.inst
       /\ intro' = CommandRecord("get_db_relationships", table, connectOk, r,
                                 IntrospectReturn(r, "no_relationships", "relationships"))
  /\ UNCHANGED <<pgConfigured, restConfigured, crud, filterVars, pipeVars, auxVars>>

\* the caller has read the outcome; the per-call records are discarded,
\* the singleton and its connection stay
Return ==
  /\ pc = "done"
  /\ pc' = "idle"
  /\ fin' = None
  /\ fout' = NoFilterCall
  /\ crud' = NoOutcome
  /\ intro' = NoIntro
  /\ pipe' = NoPipe
  /\ rel' = NoRel
  /\ esql' = NoSql
  /\ cleaned' = NoClean
  /\ UNCHANGED <<restConfigured, pgConfigured, pgInstance, msgs, catalog, runs, conc>>

\* get_table_relationships(table) asked of both clients on one catalog of
\* at most MaxConstraints constraints; table "" stands for no table given
GetTableRelationships ==
  /\ pc = "idle"
  /\ pc' = "done"
  /\ \E cat \in { c \in SUBSET ConstraintInputs : Cardinality(c) <= MaxConstraints },
        table \in {"orders", "items", "lines", "users", ""} :
       \E rest \in RestGetTableRelationships(cat, table) :
         rel' = [cmd |-> "get_table_relationships", cat |-> cat, table |-> table,
                 rest |-> rest, pg |-> PgGetTableRelationships(cat, table)]
  /\ UNCHANGED <<filterVars, restConfigured, crud, introVars, pipeVars, esql, cleaned, conc>>

\* a call of SupabaseClient.execute_sql
ExecuteSqlCall ==
  /\ pc = "idle"
  /\ pc' = "done"
  /\ \E query \in SqlInputs, unsafe \in BOOLEAN :
       LET r == ExecuteSql(query, unsafe) IN
       esql' = [cmd |-> "execute_sql", query |-> query, unsafe |-> unsafe,
                exc |-> r.exc, sent |-> r.sent]
  /\ UNCHANGED <<filterVars, restConfigured, crud, introVars, pipeVars, rel, cleaned, conc>>

\* a call of clean_db_schema_from_messages, and a second call on what the
\* first returned
CleanMessages ==
  /\ pc = "idle"
  /\ pc' = "done"
  /\ \E messages \in { << >> } \cup SeqsUpTo(CleanInputs, MaxMessages) :
       cleaned' = [cmd |-> "clean_db_schema_from_messages", before |-> messages,
                   after |-> CleanDbSchemaFromMessages(messages),
                   twice |-> CleanDbSchemaFromMessages(CleanDbSchemaFromMessages(messages))]
  /\ UNCHANGED <<filterVars, restConfigured, crud, introVars, pipeVars, rel, esql, conc>>

\* what the steps of the concurrent requests leave alone
concFrame ==
  <<pc, filterVars, restConfigured, crud, introVars, pipeVars, rel, esql, cleaned>>

\* describe_db_table of request r obtains the client; without a
\* connection string the request is answered by the REST client
RequestGetsInstance(r) ==
  /\ conc.at[r] = "start"
  /\ conc.made < MaxInstances
  /\ conc' = IF pgConfigured THEN ConcPgGetInstance(conc, r)
             ELSE [conc EXCEPT !.at[r] = "done"]
  /\ UNCHANGED concFrame

\* pg_client.describe_table(table) of request r
RequestDescribes(r) ==
  /\ conc.at[r] = "got"
  /\ conc' = ConcPgExecuteQuery(conc, r, "described")
  /\ UNCHANGED concFrame

\* pg_client.get_table_relationships(table) of request r
RequestRelationships(r) ==
  /\ conc.at[r] = "described"
  /\ conc' = ConcPgExecuteQuery(conc, r, "done")
  /\ UNCHANGED concFrame

\* request r has returned; another request takes its place
RequestReturns(r) ==
  /\ conc.at[r] = "done"
  /\ conc' = [conc EXCEPT !.at[r] = "start", !.mine[r] = 0]
  /\ UNCHANGED concFrame

\* the host framework starts a turn with a message list
NewMessages ==
  /\ pc = "idle"
  /\ runs = 0
  /\ msgs = << >>
  /\ msgs' \in MessageLists \ { << >> }
  /\ UNCHANGED <<pc, filterVars, restConfigured, crud, introVars, catalog, runs, pipe, auxVars>>

\* the schema of the database is changed
CatalogChanges ==
  /\ pc = "idle"
  /\ catalog < MaxCatalog
  /\ catalog' = catalog + 1
  /\ UNCHANGED <<pc, filterVars, restConfigured, crud, introVars, msgs, runs, pipe, auxVars>>

\* the same lookup outcome for every table
Uniformly(outcomes) == { [t \in TableNames |-> o] : o \in outcomes }

\* a run of the inject_db_schema pipe on msgs
InjectDbSchema ==
  /\ pc = "idle"
  /\ runs < MaxRuns
  /\ pc' = "done"
  /\ runs' = runs + 1
  /\ \E agent \in BOOLEAN, enabled \in EnabledInputs, connectOk \in BOOLEAN,
        pgOut \in Uniformly(PgOutcomes), restOut \in Uniformly(RestOutcomes) :
       LET r == DbInjectSchemaInfo(pgInstance, pgConfigured, restConfigured,
                                   IF enabled # << >> THEN List(enabled) ELSE NoList,
                                   enabled, connectOk, pgOut, restOut)
           p == InjectDbSchemaPipe(msgs, agent, enabled, r, catalog)
       IN
       /\ pipe' = p
       /\ msgs' = p.messages
       /\ pgInstance' = IF p.called THEN r.st.inst ELSE pgInstance
  /\ UNCHANGED <<filterVars, restConfigured, crud, pgConfigured, intro, catalog, auxVars>>

NextFilters == ApplyFilters \/ Return

NextCrud == QueryDb \/ InsertDb \/ UpdateDb \/ DeleteDb \/ ExecuteSqlCall \/ Return

NextIntro == DbInjectSchema \/ ListDbTables \/ DescribeDbTable \/ GetDbRelationships \/ Return

NextRel == GetTableRelationships \/ Return

NextClean == CleanMessages \/ Return

NextConc ==
  \E r \in Requests :
    \/ RequestGetsInstance(r)
    \/ RequestDescribes(r)
    \/ RequestRelationships(r)
    \/ RequestReturns(r)

NextPipe == NewMessages \/ CatalogChanges \/ InjectDbSchema \/ Return

\* the raw-filter engine on its own
SpecFilters == Init /\ [][NextFilters]_vars

\* the CRUD commands and the client's execute_sql
SpecCrud == Init /\ [][NextCrud]_vars

\* schema introspection over the two backends
SpecIntro == Init /\ [][NextIntro]_vars

\* the relationship lookup of the two clients
SpecRel == Init /\ [][NextRel]_vars

\* the cleaning of message lists
SpecClean == Init /\ [][NextClean]_vars

\* two describe_db_table requests whose client calls interleave
SpecConc == Init /\ [][NextConc]_vars

\* the pipe on a message list, run after run
SpecPipe == Init /\ [][NextPipe]_vars

(***************************************************************************)
(* Properties of the raw-filter engine and of the CRUD commands.           *)
(***************************************************************************)
\* the comma-separated clauses of a raw_filters argument
ClausesOf(raw) == Split(raw.s, ",")

\* the dot-separated parts of a clause
PartsOf(e) == Split(Strip(e), ".")

\* how many calls of the last _apply_raw_filters came from clause k
FromClause(out, k) == Cardinality({ i \in 1..Len(out.src) : out.src[i] = k })

\* the raw_filters argument is neither absent nor empty
HasRaw(raw) == raw.some /\ Len(raw.s) > 0

\* C1: update_db and delete_db given no equality filter and no raw_filters
\* fail with a validation error and never call execute on the backend.
C1_EmptyFiltersRejected ==
  ( /\ crud.cmd \in {"update_db", "delete_db"}
    /\ restConfigured
    /\ Len(crud.filters.f) = 0
    /\ ~HasRaw(crud.raw) )
  => ( /\ ~crud.executed
       /\ crud.exc = "ValidationError" )

\* C2: _apply_raw_filters invokes a method on the query only for a clause
\* whose operator is one of the allowed operators; a clause with any other
\* operator is skipped with a diagnostic and adds no call.
C2_OnlyAllowedOperatorsInvoked ==
  pc = "done" =>
    /\ \A i \in 1..Len(fout.calls) : fout.calls[i].m \in AllowedOps
    /\ \A j \in 1..Len(fout.parsed) :
         fout.parsed[j].operator \notin AllowedOps =>
           /\ FromClause(fout, fout.parsed[j].k) = 0
           /\ \E d \in 1..Len(fout.diag) :
                fout.diag[d] = [k |-> fout.parsed[j].k, w |-> "unsupported"]

\* C3: a clause with fewer than three parts adds no predicate, every other
\* clause with an allowed operator adds exactly one, predicates are in
\* clause order, and no clause keeps a later one from being applied.
C3_EveryValidClauseApplied ==
  (pc = "done" /\ HasRaw(fin)) =>
    LET exprs == ClausesOf(fin) IN
    /\ \A k \in 1..Len(exprs) :
         LET parts == PartsOf(exprs[k]) IN
         IF Len(parts) < 3 THEN FromClause(fout, k) = 0
         ELSE parts[2] \in AllowedOps => FromClause(fout, k) = 1
    /\ \A i, j \in 1..Len(fout.src) : i < j => fout.src[i] < fout.src[j]

\* C4: _apply_raw_filters never raises while parsing and converting,
\* whatever the raw_filters string.
C4_ParsingNeverRaises ==
  pc = "done" => fout.exc = "none"

\* the number a string of digit characters denotes
DigitNumber(c) == CASE c = "5" -> 5 [] c = "ar3" -> 3 [] c = "sup2" -> 2 [] OTHER -> 0

RECURSIVE NumberOf(_)
NumberOf(s) ==
  IF Len(s) = 0 THEN 0 ELSE 10 * NumberOf(SubSeq(s, 1, Len(s)-1)) + DigitNumber(s[Len(s)])

\* the scalar the conversion rules give a raw value, rule by rule
RuleValue(value) ==
  CASE Lower(value) = WNull -> NullV
    [] Lower(value) # WNull /\ Lower(value) = WTrue -> BoolV(TRUE)
    [] Lower(value) # WNull /\ Lower(value) = WFalse -> BoolV(FALSE)
    [] Lower(value) \notin {WNull, WTrue, WFalse} /\ IsDigit(value) -> IntV(NumberOf(value))
    [] OTHER -> StrV(value)

\* C5: every raw value reaches the query converted by the rules in their
\* order: null, then boolean, then all-digit integer, else the string.
C5_ConversionRules ==
  pc = "done" =>
    \A j \in 1..Len(fout.parsed) :
      LET p == fout.parsed[j] IN
      HasCallable(p.operator) =>
        \E i \in 1..Len(fout.calls) :
          /\ fout.src[i] = p.k
          /\ fout.calls[i].v = RuleValue(p.value)

\* C6: of a clause with three or more parts the column is the first part,
\* the operator the second, and the raw value all the text after the second
\* dot.
C6_ValueIsRejoined ==
  (pc = "done" /\ HasRaw(fin)) =>
    LET exprs == ClausesOf(fin) IN
    /\ \A j \in 1..Len(fout.parsed) :
         LET p == fout.parsed[j] IN
         /\ Strip(exprs[p.k]) = p.column \o <<".">> \o p.operator \o <<".">> \o p.value
         /\ IndexOf(p.column, ".") = 0
         /\ IndexOf(p.operator, ".") = 0
    /\ fout.exc = "none" =>
         \A k \in 1..Len(exprs) :
           Len(PartsOf(exprs[k])) >= 3 =>
             \E j \in 1..Len(fout.parsed) : fout.parsed[j].k = k

\* a clause whose value holds a dot has been parsed
C6_Witness ==
  /\ pc = "done"
  /\ \E j \in 1..Len(fout.parsed) :
       /\ IndexOf(fout.parsed[j].value, ".") > 0
       /\ fout.parsed[j].column = ColC
       /\ fout.parsed[j].operator = OpEq

\* the place of a step in the order query_table is to follow
Rank(ph) ==
  CASE ph = "filters" -> 1 [] ph = "raw" -> 2 [] ph = "order" -> 3
    [] ph = "limit" -> 4 [] ph = "offset" -> 5 [] OTHER -> 6

\* the calls of one step
CallsOf(cs, ph) == { i \in 1..Len(cs) : cs[i].ph = ph }

\* clause k of the raw_filters is a predicate the query can take
ValidClause(e) == Len(PartsOf(e)) >= 3 /\ HasCallable(PartsOf(e)[2])

\* C7: the request query_table executes was built as equality filters, raw
\* predicates in clause order, ordering, limit, offset, and execute last;
\* every equality filter and every valid raw predicate is in it.
C7_QueryBuildOrder ==
  (crud.cmd = "query_db" /\ crud.executed) =>
    LET cs == crud.calls
        f == crud.filters.f
        exprs == IF HasRaw(crud.raw) THEN ClausesOf(crud.raw) ELSE <<>>
        valid == { k \in 1..Len(exprs) : ValidClause(exprs[k]) }
    IN
    /\ \A i, j \in 1..Len(cs) : i < j => Rank(cs[i].ph) <= Rank(cs[j].ph)
    /\ Cardinality(CallsOf(cs, "filters")) = Len(f)
    /\ \A i \in 1..Len(f) : cs[i] = Call("filters", OpEq, f[i].col, f[i].v)
    /\ Cardinality(CallsOf(cs, "raw")) = Cardinality(valid)
    /\ Len(crud.src) = Cardinality(valid)
    /\ \A i \in 1..Len(crud.src) :
         /\ crud.src[i] \in valid
         /\ cs[Len(f) + i].ph = "raw"
         /\ cs[Len(f) + i].m = PartsOf(exprs[crud.src[i]])[2]
         /\ cs[Len(f) + i].col = PartsOf(exprs[crud.src[i]])[1]
    /\ \A i, j \in 1..Len(crud.src) : i < j => crud.src[i] < crud.src[j]
    /\ Cardinality(CallsOf(cs, "order")) <= 1
    /\ Cardinality(CallsOf(cs, "limit")) <= 1
    /\ Cardinality(CallsOf(cs, "offset")) <= 1
    /\ CallsOf(cs, "execute") = {Len(cs)}

\* a query with equality filters, a skipped clause, a raw predicate,
\* ordering, limit and offset has been executed
C7_Witness ==
  /\ crud.cmd = "query_db"
  /\ crud.executed
  /\ Len(crud.filters.f) = 2
  /\ Len(crud.src) = 1
  /\ Len(ClausesOf(crud.raw)) = 2
  /\ CallsOf(crud.calls, "order") # {}
  /\ CallsOf(crud.calls, "limit") # {}
  /\ CallsOf(crud.calls, "offset") # {}


(***************************************************************************)
(* Properties of schema introspection.                                     *)
(***************************************************************************)
\* the tables of the mapping a schema-gathering pass returned, with the
\* backend each was read through; nothing when the pass returned no text
ResultEntries(i) ==
  IF i.ret = "text" THEN { <<i.info[k].table, i.info[k].via>> : k \in 1..Len(i.info) }
  ELSE {}

ResultTables(i) == { e[1] : e \in ResultEntries(i) }

\* the requested tables of the last pass
Requested(i) == { i.tables[k] : k \in 1..Len(i.tables) }

\* the Primary raises during the lookup of table t
PrimaryRaises(i, t) == ~i.connectOk \/ i.pgOut[t] # "ok"

\* C8: in a schema-gathering pass over both backends, a table on which the
\* Primary raises and the Secondary succeeds is in the result, read through
\* the Secondary, and the tables the Primary can read are in the result
\* read through the Primary.
C8_PrimaryFailureFallsBack ==
  ( /\ intro.cmd = "db_inject_schema_info"
    /\ pgConfigured
    /\ restConfigured )
  => \A t \in Requested(intro) :
       ( /\ PrimaryRaises(intro, t)
         /\ intro.restOut[t] = "ok" )
       => /\ <<t, "rest">> \in ResultEntries(intro)
          /\ \A u \in Requested(intro) :
               ~PrimaryRaises(intro, u) => <<u, "pg">> \in ResultEntries(intro)

\* the lookup of table t fails on both backends
FailsOnBoth(i, t) == PrimaryRaises(i, t) /\ i.restOut[t] # "ok"

\* C9: a table whose lookup fails on both backends is left out of the
\* result of a schema-gathering pass, and every other requested table whose
\* lookup succeeds is still in it.
C9_FailedTableIsolated ==
  ( /\ intro.cmd = "db_inject_schema_info"
    /\ pgConfigured
    /\ restConfigured )
  => \A t \in Requested(intro) :
       FailsOnBoth(intro, t) =>
         /\ t \notin ResultTables(intro)
         /\ \A u \in Requested(intro) :
              ~PrimaryRaises(intro, u) => u \in ResultTables(intro)

IntrospectionCommands == {"list_db_tables", "describe_db_table", "get_db_relationships"}

\* C10: without a direct-SQL connection string and with the REST backend
\* configured, an introspection command finds the gap when it constructs
\* the direct-SQL client, before any connection or query, and answers from
\* the REST backend: an error text comes only from the REST call itself.
C10_UnconfiguredPrimaryFallsBack ==
  ( /\ intro.cmd \in IntrospectionCommands
    /\ ~pgConfigured
    /\ restConfigured )
  => /\ intro.pgConnects = 0
     /\ intro.pgQueries = 0
     /\ ~pgInstance.exists
     /\ intro.via = "rest"
     /\ intro.restCalls >= 1
     /\ intro.ret # "unavailable"
     /\ intro.ret = "error_text" => intro.exc = "RestError"

\* describe_db_table has answered from the REST backend for want of a
\* connection string
C10_Witness ==
  /\ intro.cmd = "describe_db_table"
  /\ ~pgConfigured
  /\ restConfigured
  /\ intro.via = "rest"
  /\ intro.restCalls = 2
  /\ intro.ret = "schema"


(***************************************************************************)
(* Properties of the backend error path.                                   *)
(***************************************************************************)
CrudCommands == {"query_db", "insert_db", "update_db", "delete_db"}

\* the piece x occurs in the text
Holds(text, x) == \E i \in 1..Len(text) : text[i] = x

\* C11: when the backend answers a CRUD request with an error, the client
\* method raises an error holding the backend's payload and returns no
\* data, and the command returns an error text holding that payload, never
\* a success or a no-records message.
C11_BackendErrorsSurface ==
  ( /\ crud.cmd \in CrudCommands
    /\ crud.executed
    /\ ErrorPayload(crud.resp) # "" )
  => /\ crud.exc = "BackendError"
     /\ crud.ret = "error_text"
     /\ Holds(crud.text, ErrorPayload(crud.resp))
     /\ crud.text[1] = "Error: "

\* an update was answered with an error that came with rows
C11_Witness ==
  /\ crud.cmd = "update_db"
  /\ crud.executed
  /\ crud.resp = "error_rows"
  /\ crud.ret = "error_text"


(***************************************************************************)
(* Properties of the schema text.                                          *)
(***************************************************************************)
RECURSIVE Flatten(_)
\* the blocks of lines one after the other
Flatten(blocks) ==
  IF Len(blocks) = 0 THEN << >> ELSE blocks[1] \o Flatten(Tail(blocks))

\* the lines the format gives a table, with the given arrow between the
\* ends of a relationship
TableBlock(t, arrow) ==
  << <<"Table: ", t.table>>, <<"Columns:">> >>
  \o [i \in 1..Len(t.columns) |->
        LET c == t.columns[i]
            head == <<"  - ", c.column_name, ": ", c.data_type, " ",
                      IF c.is_nullable = "YES" THEN "NULL" ELSE "NOT NULL">>
        IN IF c.column_default = "" THEN head
           ELSE head \o <<" DEFAULT ", c.column_default>>]
  \o (IF t.relationships = << >> THEN << >>
      ELSE << <<"Relationships:">> >>
           \o [i \in 1..Len(t.relationships) |->
                 LET r == t.relationships[i] IN
                 <<"  - ", r.column_name, arrow, r.foreign_table_name, ".",
                   r.foreign_column_name>>])
  \o << << >> >>

\* the text the format gives a table mapping
FormatOf(info, arrow) ==
  << <<"DATABASE SCHEMA INFORMATION:">>, << >> >>
  \o Flatten([k \in 1..Len(info) |-> TableBlock(info[k], arrow)])

\* the schema service returned a schema text
ReturnedText == intro.cmd = "db_inject_schema_info" /\ intro.ret = "text"

C16_OpenConnectionReused ==
  [][ ( /\ pc = "idle"
        /\ pgInstance.exists
        /\ pgInstance.conn = "open" )
      => ( /\ intro'.pgConnects = 0
           /\ pgInstance'.conn = "open" ) ]_vars

\* C18: called without a table list for an agent with no enabled tables,
\* and with a backend at hand, the schema service returns the schema text
\* of all tables or the no-tables text.
C18_NoListMeansAllTables ==
  ( /\ intro.cmd = "db_inject_schema_info"
    /\ ~intro.arg.some
    /\ intro.enabled = << >>
    /\ (pgConfigured \/ restConfigured) )
  => /\ intro.ret \in {"text", "no_tables"}
     /\ intro.exc = "none"

\* C19: when the direct-SQL lookup of an introspection command raises and
\* the REST client is configured, the command's result comes from an
\* attempt on the REST backend.
C19_RaisingPrimaryFallsBackOnce ==
  ( /\ intro.cmd \in IntrospectionCommands
    /\ pgConfigured
    /\ restConfigured
    /\ intro.pgExc # "none" )
  => /\ intro.via = "rest"
     /\ intro.restCalls >= 1

\* the calls of the request made for the limit or offset argument
PagingCalls(ph) == { i \in CallsOf(crud.calls, ph) : TRUE }

\* C20: a supplied limit, zero included, is applied to the request
\* query_table executes, and so is a supplied offset other than zero.
C20_LimitAndOffsetApplied ==
  ( /\ crud.cmd = "query_db"
    /\ crud.executed )
  => /\ crud.limit.some =>
          \E i \in PagingCalls("limit") : crud.calls[i].v = IntV(crud.limit.n)
     /\ (crud.offset.some /\ crud.offset.n # 0) =>
          \E i \in PagingCalls("offset") : crud.calls[i].v = IntV(crud.offset.n)


(***************************************************************************)
(* Properties of the inject_db_schema pipe.                                *)
(***************************************************************************)
\* the places of the start delimiter in a string
StartsIn(text) == { i \in 1..Len(text) : text[i] = DB_SCHEMA_START_DELIMITER }

\* the delimited blocks of a string: a start delimiter with an end
\* delimiter after it
BlocksIn(text) ==
  { i \in StartsIn(text) :
      \E j \in (i + 1)..Len(text) : text[j] = DB_SCHEMA_END_DELIMITER }

RECURSIVE BlocksInParts(_)
\* the number of delimited blocks in the text parts of a list content
BlocksInParts(parts) ==
  IF Len(parts) = 0 THEN 0
  ELSE Cardinality(BlocksIn(parts[1].text)) + BlocksInParts(Tail(parts))

\* the number of delimited blocks in a message
Blocks(msg) ==
  IF msg.kind = "str" THEN Cardinality(BlocksIn(msg.s)) ELSE BlocksInParts(msg.parts)

\* the pipe has run on a list that starts with its system message
RanOnSystemFirst ==
  /\ pipe.cmd = "inject_db_schema"
  /\ Len(msgs) > 0
  /\ msgs[1].role = "system"

\* C13: after a run of the pipe, whatever the runs before it, a system
\* message that has been given a schema block holds exactly one block,
\* with string content and with list content.
C13_InjectionIdempotent ==
  ( /\ RanOnSystemFirst
    /\ (pipe.injected \/ Blocks(pipe.before[1]) > 0) )
  => Blocks(msgs[1]) = 1

\* C14: after a run of the pipe that injected a block, no message with a
\* role other than system contains a delimited block.
C14_NoBlockOutsideSystem ==
  ( /\ pipe.cmd = "inject_db_schema"
    /\ pipe.injected )
  => \A i \in 1..Len(msgs) : msgs[i].role # "system" => Blocks(msgs[i]) = 0

\* the first message with role system, 0 when there is none
FirstSystem(messages) ==
  LET S == { i \in 1..Len(messages) : messages[i].role = "system" } IN
  IF S = {} THEN 0 ELSE CHOOSE i \in S : \A j \in S : i <= j

\* C15: when the list has a system message and the run had a schema text,
\* the first system message is the one before the run with the delimited
\* block appended, to the string or as a new text part, and every other
\* message is as before.
C15_FirstSystemMessageExtended ==
  ( /\ pipe.cmd = "inject_db_schema"
    /\ pipe.available
    /\ FirstSystem(pipe.before) # 0 )
  => LET f == FirstSystem(pipe.before) IN
     /\ Len(msgs) = Len(pipe.before)
     /\ msgs[f] = IF pipe.before[f].kind = "str"
                  THEN [pipe.before[f] EXCEPT
                          !.s = @ \o DelimitedSchema(pipe.piece)]
                  ELSE [pipe.before[f] EXCEPT
                          !.parts = @ \o << TextPart(DelimitedSchema(pipe.piece)) >>]
     /\ \A i \in 1..Len(msgs) : i # f => msgs[i] = pipe.before[i]

\* the schema texts in a message
SchemaPieces(msg) ==
  IF msg.kind = "str"
  THEN { msg.s[i] : i \in { j \in 1..Len(msg.s) : msg.s[j].k = "schema" } }
  ELSE UNION { { msg.parts[n].text[i] :
                   i \in { j \in 1..Len(msg.parts[n].text) :
                             msg.parts[n].text[j].k = "schema" } } :
               n \in 1..Len(msg.parts) }

\* C17: after a run of the pipe for an agent, a schema text in the system
\* message was read from the catalog during that run: the run called the
\* schema service, and every schema text there is of the current catalog
\* version.
C17_SchemaReadDuringRun ==
  ( /\ RanOnSystemFirst
    /\ pipe.agent
    /\ SchemaPieces(msgs[1]) # {} )
  => /\ pipe.called
     /\ \A x \in SchemaPieces(msgs[1]) : x.ver = catalog


(***************************************************************************)
(* Properties of the relationship lookups.                                 *)
(***************************************************************************)
\* C21: on every catalog and for every table, given or not, the REST
\* lookup and the direct-SQL lookup return the same set of relationship
\* records.
C21_SameRelationships ==
  rel.cmd = "get_table_relationships" => rel.rest = rel.pg


(***************************************************************************)
(* Properties of updates and deletes whose raw clauses are all skipped.    *)
(***************************************************************************)
\* C22: an update or delete given no equality filters and a non-empty
\* raw_filters string is executed only with at least one predicate applied
\* to the request.
C22_SkippedClausesNeverMatchAll ==
  ( /\ crud.cmd \in {"update_db", "delete_db"}
    /\ crud.filters.f = << >>
    /\ crud.raw.some
    /\ crud.raw.s # << >>
    /\ crud.executed )
  => \E i \in 1..Len(crud.calls) : crud.calls[i].m \in AllowedOps


(***************************************************************************)
(* Properties of execute_sql.                                              *)
(***************************************************************************)
\* a blocked keyword occurs in the query, in any case
NamesBlockedKeyword(query) ==
  \E k \in BlockedKeywords :
    \E i \in 1..Len(query) :
      /\ i + Len(k) - 1 <= Len(query)
      /\ \A j \in 1..Len(k) : LowerChar(query[i + j - 1]) = k[j]

HoldsBlock(text) ==
  /\ \E i \in 1..Len(text) : text[i] = DB_SCHEMA_START_DELIMITER
  /\ \E i \in 1..Len(text) : text[i] = DB_SCHEMA_END_DELIMITER

\* C24: after the cleaning no message with a role other than system and
\* string content holds both delimiters, system messages are as before,
\* and cleaning the result again changes nothing.
C24_CleaningRemovesEveryBlock ==
  cleaned.cmd = "clean_db_schema_from_messages"
  => /\ Len(cleaned.after) = Len(cleaned.before)
     /\ \A i \in 1..Len(cleaned.after) :
          /\ ( cleaned.after[i].role # "system" /\ cleaned.after[i].kind = "str" )
             => ~HoldsBlock(cleaned.after[i].s)
          /\ cleaned.before[i].role = "system" => cleaned.after[i] = cleaned.before[i]
     /\ cleaned.twice = cleaned.after


(***************************************************************************)
(* Properties of concurrent requests.                                      *)
(***************************************************************************)
\* C25: obtaining the client in one request never closes a connection
\* another request is still using, and an open direct-SQL connection is
\* always the one of the current singleton instance.
C25_ConnectionSafeAcrossRequests ==
  /\ ~conc.closedInUse
  /\ \A i \in DOMAIN conc.conn : conc.conn[i] = "open" => i = conc.singleton

====
